---- MODULE Spec2Model ----
(***************************************************************************)
(* Model of the meeting lifecycle orchestrator (MeetingService) and of the *)
(* parts of AIService it drives.                                           *)
(*                                                                         *)
(* Objects that JavaScript shares by reference (session objects, the       *)
(* `responses` arrays of sub-sessions) live in heaps and are addressed by  *)
(* a key; an object no map and no suspended call refers to any more is     *)
(* dropped from its heap, as the garbage collector would.  Every async     *)
(* call that waits for a collaborator is a suspended task that resumes in  *)
(* a later step, so other requests and callbacks interleave at its awaits. *)
(* Each operation is a function from the state before to the state after;  *)
(* the action of the operation commits that state.                         *)
(***************************************************************************)
EXTENDS Integers, Sequences, FiniteSets, Bags, TLC

\* ---- bounds of the model ------------------------------------------------
MaxMeetings == 2      \* meetings ever scheduled
MaxTime     == 1      \* last instant of the clock
MaxSessions == 2      \* session objects alive at once
MaxArrs     == 2      \* sub-session answer arrays alive at once
MaxTasks    == 1      \* calls suspended at an await at once (one more in a race)
MaxAnswers  == 4      \* answers a sub-session may collect
DayLen      == 2      \* instants per day of the clock
MaxDays     == 6      \* days of the calendar, from Monday on
InstantMs   == 30000  \* milliseconds from one instant of the clock to the next
MaxRetries  == 3      \* largest maxRetries given to retryAsync
MaxBaseDelay == 2     \* largest baseDelay given to retryAsync
MaxWeeks    == 2      \* weeks the inputs of getNextOccurrence span

\* ---- program constants --------------------------------------------------
NominalDuration == 30           \* meetingData.duration || 30
NoTime          == 0 - 1        \* a timestamp field that is still undefined
MsPerMinute     == 60000        \* 1000 * 60

MeetingIds == 1..MaxMeetings
Names      == {"alice", "bob"}
Recurrences == {"none", "daily", "weekly"}

\* a field of meetingData the request left out
Unset == "undefined"

MeetingSpec(parts, vsm, rec) ==
  [participants |-> parts, isVirtualScrumMaster |-> vsm, recurrence |-> rec,
   createdBy |-> Unset]

\* the same request made with createdBy
OwnedBy(spec, userId) == [spec EXCEPT !.createdBy = userId]

\* one participant with the facilitator (one-time, daily) and without it (daily,
\* weekly); one participant listed twice in a one-time facilitated meeting
MainSpecs ==
  {MeetingSpec(<<"alice">>, TRUE, rec) : rec \in {"none", "daily"}}
  \cup {MeetingSpec(<<"alice">>, FALSE, rec) : rec \in {"daily", "weekly"}}
  \cup {MeetingSpec(<<"alice", "alice">>, TRUE, "none")}

\* two participants in a one-time facilitated meeting
PairSpecs == {MeetingSpec(<<"alice", "bob">>, TRUE, "none")}

\* the facilitated meetings of the question flow: one participant in a daily
\* meeting, two participants in a one-time meeting
FlowSpecs ==
  {MeetingSpec(<<"alice">>, TRUE, "daily"), MeetingSpec(<<"alice", "bob">>, TRUE, "none")}

\* the meetings of the registry listing: without the facilitator, daily; listing
\* one user and created by the other, listing both and created by the first,
\* listing the second and created by nobody
RegistrySpecs ==
  {OwnedBy(MeetingSpec(<<"alice">>, FALSE, "daily"), "bob"),
   OwnedBy(MeetingSpec(<<"alice", "bob">>, FALSE, "daily"), "alice"),
   MeetingSpec(<<"bob">>, FALSE, "daily")}

\* the meetings of the calendar: one participant, without the facilitator, daily
\* and one-time
CalendarSpecs ==
  {MeetingSpec(<<"alice">>, FALSE, rec) : rec \in {"daily", "none"}}

\* the meeting specs requests are drawn from
MeetingSpecs == MainSpecs \cup PairSpecs \cup FlowSpecs \cup RegistrySpecs \cup CalendarSpecs

Answers == {"fixed login", "none", "blocked urgent", "cannot proceed"}

\* the answers a participant gives to the question at an index: free text for the
\* first two, an answer about blockers for the third, and free text again for
\* whatever is asked after that
AnswersFor(questionIndex) ==
  IF questionIndex = 2 THEN {"none", "blocked urgent", "cannot proceed"} ELSE {"fixed login"}

\* what one exploration covers:
\*  - every meeting of MainSpecs over the whole clock, any request at any
\*    time, one call suspended at a time;
\*  - the meeting of PairSpecs within one instant, any request at any time, one
\*    call suspended at a time;
\*  - a single facilitated one-participant meeting within one instant, any
\*    request at any time by its participant, calls that overlap, and of a call
\*    that returned only the id observed;
\*  - the question flow within one instant: the meeting is started by hand
\*    while it is scheduled, or by its trigger; a participant who has no
\*    sub-session joins, and answers the three questions one after the other;
\*    nobody ends or cancels by hand; calls of different participants overlap,
\*    the blocker answer may be any of the three, and the registry is read at
\*    any time;
\*  - two facilitated one-participant meetings side by side within one instant,
\*    any request at any time by their participant, one call suspended at a
\*    time, one answer taken from each participant, and of a call that returned
\*    only the id observed;
\*  - the registry listing within one instant: two meetings of RegistrySpecs,
\*    started while scheduled and joined by the users they list, no call
\*    suspended, the registry read at any time;
\*  - the calendar: one meeting of CalendarSpecs from Monday to the day MaxDays,
\*    any request at any time, no call suspended, the notifier failing or not
Scopes ==
  {[specs |-> MainSpecs, meetings |-> MaxMeetings - 1, sessions |-> MaxSessions - 1,
    tasks |-> MaxTasks, answers |-> MaxAnswers, lastInstant |-> MaxTime,
    blockers |-> {"none", "blocked urgent"}, scripted |-> FALSE, reads |-> FALSE,
    results |-> TRUE, outages |-> FALSE,
    callers |-> Names],
   [specs |-> PairSpecs, meetings |-> MaxMeetings - 1, sessions |-> MaxSessions - 1,
    tasks |-> MaxTasks, answers |-> MaxAnswers, lastInstant |-> 0,
    blockers |-> {"none", "blocked urgent"}, scripted |-> FALSE, reads |-> FALSE,
    results |-> TRUE, outages |-> FALSE,
    callers |-> Names],
   [specs |-> {MeetingSpec(<<"alice">>, TRUE, "none")},
    meetings |-> MaxMeetings - 1, sessions |-> MaxSessions - 1,
    tasks |-> MaxTasks + 1, answers |-> MaxAnswers, lastInstant |-> 0,
    blockers |-> {"none", "blocked urgent"}, scripted |-> FALSE, reads |-> FALSE,
    results |-> FALSE, outages |-> FALSE,
    callers |-> {"alice"}],
   [specs |-> FlowSpecs, meetings |-> MaxMeetings - 1, sessions |-> MaxSessions - 1,
    tasks |-> MaxTasks + 1, answers |-> MaxAnswers, lastInstant |-> 0,
    blockers |-> AnswersFor(2), scripted |-> TRUE, reads |-> TRUE,
    results |-> TRUE, outages |-> FALSE,
    callers |-> Names],
   [specs |-> {MeetingSpec(<<"alice">>, TRUE, "none")},
    meetings |-> MaxMeetings, sessions |-> MaxSessions,
    tasks |-> MaxTasks, answers |-> 1, lastInstant |-> 0,
    blockers |-> {"none", "blocked urgent"}, scripted |-> FALSE, reads |-> FALSE,
    results |-> FALSE, outages |-> FALSE,
    callers |-> {"alice"}],
   [specs |-> RegistrySpecs, meetings |-> MaxMeetings, sessions |-> MaxSessions,
    tasks |-> 0, answers |-> MaxAnswers, lastInstant |-> 0,
    blockers |-> AnswersFor(2), scripted |-> TRUE, reads |-> TRUE,
    results |-> TRUE, outages |-> FALSE,
    callers |-> Names],
   [specs |-> CalendarSpecs, meetings |-> MaxMeetings - 1, sessions |-> MaxSessions - 1,
    tasks |-> 0, answers |-> MaxAnswers, lastInstant |-> MaxDays * DayLen - 1,
    blockers |-> AnswersFor(2), scripted |-> FALSE, reads |-> FALSE,
    results |-> TRUE, outages |-> TRUE,
    callers |-> Names]}

VARIABLES
  now,            \* the wall clock (moment(), new Date())
  meetings,       \* this.meetings: id -> meeting record
  activeSessions, \* this.activeSessions: id -> session object (heap key)
  scheduledJobs,  \* this.scheduledJobs: ids holding a started cron job
  timers,         \* pending setTimeout callbacks, by meeting id
  cronFired,      \* cron jobs that already ran (or were created) at this instant
  sessionObjs,    \* heap of session objects
  answerArrs,     \* heap of sub-session `responses` arrays
  tasks,          \* bag of calls suspended at an await on a collaborator
  lastOp,         \* what the call that returned last returned
  cancelledScheduled, \* ids cancelled while 'scheduled' that still hold a trigger
  scope,          \* the scope of this exploration; never changes
  retry,          \* the call of retryAsync in progress (utilities)
  occurrence      \* the call of getNextOccurrence in progress (utilities)

\* the variables of the meeting service
serviceVars == <<now, meetings, activeSessions, scheduledJobs, timers, cronFired,
                 sessionObjs, answerArrs, tasks, lastOp, cancelledScheduled, scope>>

vars == <<now, meetings, activeSessions, scheduledJobs, timers, cronFired,
          sessionObjs, answerArrs, tasks, lastOp, cancelledScheduled, scope,
          retry, occurrence>>

\* the state as one value, with the keys its heap of session objects has
State ==
  [now |-> now, meetings |-> meetings, activeSessions |-> activeSessions,
   scheduledJobs |-> scheduledJobs, timers |-> timers, cronFired |-> cronFired,
   sessionObjs |-> sessionObjs, answerArrs |-> answerArrs, tasks |-> tasks,
   lastOp |-> lastOp, cancelledScheduled |-> cancelledScheduled,
   sessionKeys |-> 1..scope.sessions]

\* ---- helpers --------------------------------------------------------------
Op(op, id, ok, err, cause, fin) ==
  [op |-> op, id |-> id, ok |-> ok, err |-> err, cause |-> cause, finalizer |-> fin,
   userId |-> "", result |-> <<>>]

\* a step that returns nothing to a caller: a clock tick, a call reaching an await
Step == Op("step", 0, TRUE, "", "", FALSE)

Has(map, key) == key \in DOMAIN map

MapSet(map, key, val) == [k \in (DOMAIN map) \cup {key} |-> IF k = key THEN val ELSE map[k]]

MapClear(map, key) == <<>>

MapDelete(map, key) == [k \in (DOMAIN map) \ {key} |-> map[k]]

Values(map) == {map[k] : k \in DOMAIN map}

Restrict(map, keys) == [k \in (DOMAIN map) \cap keys |-> map[k]]

Includes(seq, x) == \E i \in 1..Len(seq) : seq[i] = x

IndexOf(seq, x) == IF Includes(seq, x)
                   THEN CHOOSE i \in 1..Len(seq) : seq[i] = x /\ \A j \in 1..(i-1) : seq[j] # x
                   ELSE 0

Min(S) == CHOOSE x \in S : \A y \in S : x <= y

TimeOfDay(t) == t % DayLen

IsWeekday(t) == ((t \div DayLen) % 7) < 5

\* scheduledTime.isBefore(now)
IsBeforeReversed(t, n) == t > n

IsBefore(t, n) == t < n

\* cron expression `${minute} ${hour} * * 1-5` matched against the clock
CronMatchesDaily(scheduledTime, n) == TimeOfDay(n) = TimeOfDay(scheduledTime)

CronMatches(scheduledTime, n) == TimeOfDay(n) = TimeOfDay(scheduledTime) /\ IsWeekday(n)

\* response.toLowerCase().includes('no') || ...includes('none')
ContainsNo(answer) == answer \in {"none", "cannot proceed"}

\* urgentKeywords.some(keyword => blockersText.toLowerCase().includes(keyword))
ContainsUrgent(answer) == answer \in {"blocked urgent", "cannot proceed"}

Truthy(v) == v = "true"

\* notifyParticipants: emailService.sendMeetingNotification throws when the mail
\* cannot be sent; the catch around it logs the error and returns
notifyPropagates(sent) == IF sent THEN "sent" ELSE "threw"

notifyParticipants(sent) == IF sent THEN "sent" ELSE "logged"

\* what a call that awaited notifyParticipants returns to its caller
Notified(op, id, outcome, failure) ==
  IF outcome = "threw" THEN Op(op, id, FALSE, failure, "unnotified", FALSE)
  ELSE Op(op, id, TRUE, "", IF outcome = "logged" THEN "unnotified" ELSE "", FALSE)

\* ---- reachability of heap objects -------------------------------------------
\* sessions a map entry or a suspended call still refers to
LiveSessions(active, suspended) ==
  Values(active) \cup {t.session : t \in BagToSet(suspended)}

\* answer arrays a live sub-session, a response slot or a suspended call refers to
LiveArrs(sessions, suspended) ==
  UNION {{sessions[k].activeStandupSessions[n].responses :
             n \in DOMAIN sessions[k].activeStandupSessions}
         \cup Values(sessions[k].responses) : k \in DOMAIN sessions}
  \cup {t.updated.responses : t \in {u \in BagToSet(suspended) : u.kind = "submit"}}

\* the state an operation leaves, without the objects nothing refers to
Collected(s) ==
  LET sessions == Restrict(s.sessionObjs, LiveSessions(s.activeSessions, s.tasks))
  IN [s EXCEPT !.sessionObjs = sessions,
               !.answerArrs = Restrict(s.answerArrs, LiveArrs(sessions, s.tasks)),
               !.cancelledScheduled = @ \cap (s.timers \cup s.scheduledJobs)]

Commit(s) ==
  \E c \in {Collected(s)} :
     /\ now' = c.now
     /\ meetings' = c.meetings
     /\ activeSessions' = c.activeSessions
     /\ scheduledJobs' = c.scheduledJobs
     /\ timers' = c.timers
     /\ cronFired' = c.cronFired
     /\ sessionObjs' = c.sessionObjs
     /\ answerArrs' = c.answerArrs
     /\ tasks' = c.tasks
     /\ lastOp' = IF scope.results THEN c.lastOp ELSE Op("call", c.lastOp.id, TRUE, "", "", FALSE)
     /\ cancelledScheduled' = c.cancelledScheduled
     /\ scope' = scope
     /\ UNCHANGED <<retry, occurrence>>

\* ---- initial state --------------------------------------------------------
\* no call of retryAsync, no call of getNextOccurrence
NoRetry ==
  [pc |-> "idle", maxRetries |-> 0, baseDelay |-> 0, i |-> 0, outcomes |-> <<>>,
   delays |-> <<>>, result |-> <<>>]

NoOccurrence ==
  [pc |-> "idle", time |-> 0, recurrence |-> "", now |-> 0, ok |-> TRUE, result |-> 0]

\* the service after construction: empty maps, nothing scheduled, nothing suspended
Constructed ==
  /\ meetings = <<>>
  /\ activeSessions = <<>>
  /\ scheduledJobs = {}
  /\ timers = {}
  /\ cronFired = {}
  /\ sessionObjs = <<>>
  /\ answerArrs = <<>>
  /\ tasks = EmptyBag
  /\ lastOp = Op("init", 0, TRUE, "", "", FALSE)
  /\ cancelledScheduled = {}

Init ==
  /\ now = 0
  /\ Constructed
  /\ scope \in Scopes
  /\ retry = NoRetry
  /\ occurrence = NoOccurrence

\* ---- scheduleMeeting ------------------------------------------------------
NewMeeting(parts, t, vsm, rec, by) ==
  [participants |-> parts, scheduledTime |-> t, duration |-> NominalDuration,
   isVirtualScrumMaster |-> vsm, recurrence |-> rec, status |-> "scheduled",
   startedAt |-> NoTime, endedAt |-> NoTime, createdBy |-> by]

\* uuidv4(): an id no meeting has
NextId(s) == Cardinality(DOMAIN s.meetings) + 1

\* scheduleRecurringMeeting: a started cron job, kept in scheduledJobs
scheduleRecurringMeeting(s, id) ==
  [s EXCEPT !.scheduledJobs = @ \cup {id}, !.cronFired = @ \cup {id}]

\* scheduleOneTimeMeeting throws when the instant is before now
OneTimeThrows(s, meeting) == IsBefore(meeting.scheduledTime, s.now)

\* scheduleOneTimeMeeting: a timer whose handle is not kept
scheduleOneTimeMeeting(s, id) == [s EXCEPT !.timers = @ \cup {id}]

scheduleMeeting(s, parts, t, vsm, rec, by) ==
  LET id == NextId(s)
      meeting == NewMeeting(parts, t, vsm, rec, by)
      registered == [s EXCEPT !.meetings = MapSet(@, id, meeting)]
  IN IF rec = "daily"
     THEN [scheduleRecurringMeeting(registered, id)
             EXCEPT !.lastOp = Op("scheduleMeeting", id, TRUE, "", "", FALSE)]
     ELSE IF OneTimeThrows(registered, meeting)
     THEN [registered EXCEPT !.lastOp = Op("scheduleMeeting", id, FALSE,
                                           "Failed to schedule meeting", "past", FALSE)]
     ELSE [scheduleOneTimeMeeting(registered, id)
             EXCEPT !.lastOp = Op("scheduleMeeting", id, TRUE, "", "", FALSE)]

ScheduleMeeting(spec, t) ==
  /\ Cardinality(DOMAIN meetings) < scope.meetings
  /\ spec \in scope.specs
  /\ t <= scope.lastInstant
  /\ Commit(scheduleMeeting(State, spec.participants, t, spec.isVirtualScrumMaster,
                            spec.recurrence, spec.createdBy))

\* ---- startMeeting ---------------------------------------------------------
NewSession(s, id, meeting) ==
  [meetingId |-> id, participants |-> meeting.participants, responses |-> <<>>,
   activeStandupSessions |-> <<>>, startTime |-> s.now,
   isVirtualScrumMaster |-> meeting.isVirtualScrumMaster]

\* heap keys free for the session that replaces the one registered for id
FreeSessionKeys(s, id) ==
  s.sessionKeys \ LiveSessions(MapDelete(s.activeSessions, id), s.tasks)

\* startMeeting, called by a request (by = "startMeeting") or by a callback
startMeeting(s, id, by, sent) ==
  IF ~Has(s.meetings, id)
  THEN [s EXCEPT !.lastOp = Op(by, id, FALSE, "Failed to start meeting", "NotFound", FALSE)]
  ELSE LET sid == Min(FreeSessionKeys(s, id))
       IN [s EXCEPT !.meetings[id].status = "in-progress",
                    !.meetings[id].startedAt = s.now,
                    !.sessionObjs = MapSet(@, sid, NewSession(s, id, s.meetings[id])),
                    !.activeSessions = MapSet(@, id, sid),
                    !.lastOp = Notified(by, id, notifyParticipants(sent),
                                        "Failed to start meeting")]

CanStart(s, id) == Has(s.meetings, id) => FreeSessionKeys(s, id) # {}

\* in the question flow the meeting is started once
StartMeeting(id, sent) ==
  /\ sent \/ scope.outages
  /\ scope.scripted => Has(meetings, id) /\ meetings[id].status = "scheduled"
  /\ CanStart(State, id)
  /\ Commit(startMeeting(State, id, "startMeeting", sent))

\* the setTimeout callback of scheduleOneTimeMeeting
TimerFire(id, sent) ==
  /\ sent \/ scope.outages
  /\ id \in timers
  /\ meetings[id].scheduledTime <= now
  /\ CanStart(State, id)
  /\ Commit(startMeeting([State EXCEPT !.timers = @ \ {id}], id, "timerFire", sent))

\* the cron callback of scheduleRecurringMeeting
CronFire(id, sent) ==
  /\ sent \/ scope.outages
  /\ id \in scheduledJobs
  /\ id \notin cronFired
  /\ CronMatches(meetings[id].scheduledTime, now)
  /\ CanStart(State, id)
  /\ Commit(startMeeting([State EXCEPT !.cronFired = @ \cup {id}], id, "cronFire", sent))

\* ---- cancelMeeting --------------------------------------------------------
\* job.destroy(); this.scheduledJobs.delete(meetingId)
JobsKept(s, id) == s.scheduledJobs

JobsAfterCancel(s, id) == s.scheduledJobs \ {id}

\* the setTimeout handle was never kept, so no pending timer is cleared
TimersAfterCancel(s, id) == s.timers

cancelMeeting(s, id, sent) ==
  IF ~Has(s.meetings, id)
  THEN [s EXCEPT !.lastOp = Op("cancelMeeting", id, FALSE, "Failed to cancel meeting",
                               "NotFound", FALSE)]
  ELSE [s EXCEPT !.meetings[id].status = "cancelled",
                 !.scheduledJobs = JobsAfterCancel(s, id),
                 !.timers = TimersAfterCancel(s, id),
                 !.cancelledScheduled = IF s.meetings[id].status = "scheduled"
                                        THEN @ \cup {id} ELSE @,
                 !.lastOp = Notified("cancelMeeting", id, notifyParticipants(sent),
                                     "Failed to cancel meeting")]

CancelMeeting(id, sent) ==
  /\ sent \/ scope.outages
  /\ ~scope.scripted
  /\ Commit(cancelMeeting(State, id, sent))

\* ---- getMeeting -------------------------------------------------------------
getMeetingLenient(s, id) ==
  [s EXCEPT !.lastOp = Op("getMeeting", id, TRUE, "", "", FALSE)]

getMeeting(s, id) ==
  IF ~Has(s.meetings, id)
  THEN [s EXCEPT !.lastOp = Op("getMeeting", id, FALSE, "Meeting not found", "NotFound", FALSE)]
  ELSE [s EXCEPT !.lastOp = Op("getMeeting", id, TRUE, "", "", FALSE)]

GetMeeting(id) ==
  /\ scope.reads
  /\ Commit(getMeeting(State, id))

\* ---- getMeetings ------------------------------------------------------------
\* meeting.participants.includes(userId) || meeting.createdBy === userId
ListsOnly(meeting, userId) == Includes(meeting.participants, userId)

ListsOrOwns(meeting, userId) ==
  Includes(meeting.participants, userId) \/ meeting.createdBy = userId

\* Array.from(this.meetings.values()).filter(...): the Map is walked in insertion
\* order, which is the order of the ids; the records returned are named by id
RECURSIVE UserMeetings(_, _, _)
UserMeetings(registry, userId, id) ==
  IF ~Has(registry, id) THEN <<>>
  ELSE (IF ListsOrOwns(registry[id], userId) THEN <<id>> ELSE <<>>)
         \o UserMeetings(registry, userId, id + 1)

getMeetings(s, userId) ==
  [s EXCEPT !.lastOp = [Op("getMeetings", 0, TRUE, "", "", FALSE)
                          EXCEPT !.userId = userId,
                                 !.result = UserMeetings(s.meetings, userId, 1)]]

GetMeetings(userId) ==
  /\ scope.reads
  /\ Commit(getMeetings(State, userId))

\* ---- the clock ------------------------------------------------------------
\* time passes once every due timer and every matching cron job has run
Tick ==
  /\ now < scope.lastInstant
  /\ \A id \in timers : meetings[id].scheduledTime > now
  /\ \A id \in scheduledJobs : CronMatches(meetings[id].scheduledTime, now) => id \in cronFired
  /\ Commit([State EXCEPT !.now = @ + 1, !.cronFired = {}, !.lastOp = Step])

\* ---- joinMeeting ----------------------------------------------------------
\* aiService.conductStandupSession: a fresh sub-session with its own answer
\* array and no isComplete field
conductStandupSession(name, arr) ==
  [participantName |-> name, currentQuestionIndex |-> 0, responses |-> arr,
   isComplete |-> "undefined"]

\* heap keys free for the answer array of the sub-session that replaces name's
FreeArrKeys(s, sid, name) ==
  (1..MaxArrs) \ LiveArrs([s.sessionObjs EXCEPT ![sid].activeStandupSessions = MapDelete(@, name)],
                          s.tasks)

\* if (session.isVirtualScrumMaster): only then does joinMeeting open a question flow
FacilitatedAlways(session) == TRUE

Facilitated(session) == session.isVirtualScrumMaster

\* meeting.participants.includes(participantName)
InvitedAnyone(meeting, name) == TRUE

Invited(meeting, name) == Includes(meeting.participants, name)

\* no session registered for the id: 'Meeting session not found or meeting has not
\* started' is thrown before anything is created
joinWelcomed(s, id) ==
  [s EXCEPT !.lastOp = Op("joinMeeting", id, TRUE, "", "", FALSE)]

joinRejected(s, id) ==
  [s EXCEPT !.lastOp = Op("joinMeeting", id, FALSE, "Failed to join meeting", "NotFound", FALSE)]

joinMeeting(s, id, name) ==
  IF ~Has(s.activeSessions, id)
  THEN joinRejected(s, id)
  ELSE IF ~Invited(s.meetings[id], name)
  THEN [s EXCEPT !.lastOp = Op("joinMeeting", id, FALSE, "Failed to join meeting",
                               "NotInvited", FALSE)]
  ELSE LET sid == s.activeSessions[id]
       IN IF Facilitated(s.sessionObjs[sid])
          THEN LET arr == Min(FreeArrKeys(s, sid, name))
               IN [s EXCEPT !.answerArrs = MapSet(@, arr, <<>>),
                            !.sessionObjs[sid].activeStandupSessions =
                                MapSet(@, name, conductStandupSession(name, arr)),
                            !.lastOp = Op("joinMeeting", id, TRUE, "", "question", FALSE)]
          ELSE [s EXCEPT !.lastOp = Op("joinMeeting", id, TRUE, "", "", FALSE)]

CanJoin(s, id, name) ==
  (/\ Has(s.activeSessions, id)
   /\ Invited(s.meetings[id], name)
   /\ Facilitated(s.sessionObjs[s.activeSessions[id]]))
  => FreeArrKeys(s, s.activeSessions[id], name) # {}

\* the sub-session the call would advance, if there is one
SubSessionOf(s, id, name) ==
  IF Has(s.activeSessions, id) /\ Has(s.sessionObjs[s.activeSessions[id]].activeStandupSessions, name)
  THEN {s.sessionObjs[s.activeSessions[id]].activeStandupSessions[name]}
  ELSE {}

\* in the question flow a listed participant joins the live session once
JoinMeeting(id, name) ==
  /\ name \in scope.callers
  /\ scope.scripted => /\ Has(activeSessions, id)
                       /\ Invited(meetings[id], name)
                       /\ SubSessionOf(State, id, name) = {}
  /\ CanJoin(State, id, name)
  /\ Commit(joinMeeting(State, id, name))

\* ---- aiService.processStandupResponse ---------------------------------------
\* sessionData.responses[questionIndex] = {question, answer, timestamp}
StoreAnswer(arr, questionIndex, answer) ==
  LET entry == [question |-> questionIndex, answer |-> answer]
  IN IF questionIndex + 1 <= Len(arr)
     THEN [arr EXCEPT ![questionIndex + 1] = entry]
     ELSE Append(arr, entry)

\* the object processStandupResponse returns
UpdatedSession(sessionData, questionIndex) ==
  [sessionData EXCEPT !.currentQuestionIndex = questionIndex + 1,
                      !.isComplete = IF questionIndex >= 2 THEN "true" ELSE "false"]

\* whether processStandupResponse awaits generateResponse for this answer
NeedsAI(questionIndex, answer) ==
  \/ questionIndex \in {0, 1}
  \/ questionIndex = 2 /\ ~ContainsNo(answer)

\* aiService.extractBlockers over the (sparse) response table
RECURSIVE ExtractFrom(_, _, _, _)
ExtractFrom(arrs, responses, i, n) ==
  IF i > n THEN <<>>
  ELSE LET rest == ExtractFrom(arrs, responses, i + 1, n)
       IN IF /\ Has(responses, i)
             /\ Len(arrs[responses[i]]) > 2
             /\ ~ContainsNo(arrs[responses[i]][3].answer)
          THEN <<[participant |-> i, blocker |-> arrs[responses[i]][3].answer]>> \o rest
          ELSE rest

extractBlockers(s, session) ==
  ExtractFrom(s.answerArrs, session.responses, 1, Len(session.participants))

\* ---- suspended calls --------------------------------------------------------
Task(kind, pc, id, sid, name, updated, via, blockers, esc) ==
  [kind |-> kind, pc |-> pc, meetingId |-> id, session |-> sid,
   participantName |-> name, updated |-> updated, via |-> via,
   blockers |-> blockers, requiresEscalation |-> esc, analysed |-> FALSE, alerts |-> 0]

NoSub == conductStandupSession("", 0)

Suspend(s, t) == [s EXCEPT !.tasks = @ (+) SetToBag({t}), !.lastOp = Step]

Drop(s, t) == [s EXCEPT !.tasks = @ (-) SetToBag({t})]

\* ---- endMeeting up to its first await ---------------------------------------
\* new Date() - new Date(session.startTime), in milliseconds
ElapsedMs(startTime, endTime) == (endTime - startTime) * InstantMs

\* Math.round(x / (1000 * 60)): the nearest whole number, a half rounded up
ElapsedNominal(startTime, endTime) == NominalDuration

ElapsedMinutes(startTime, endTime) ==
  (2 * ElapsedMs(startTime, endTime) + MsPerMinute) \div (2 * MsPerMinute)

\* the guard of endMeeting
EndGuard(s, id) == Has(s.activeSessions, id) /\ Has(s.meetings, id)

\* guard passed: status and timestamps written, summarizeMeeting awaited
endBegin(s, id, via, name) ==
  LET sid == s.activeSessions[id]
  IN Suspend([s EXCEPT !.meetings[id].status = "completed",
                       !.meetings[id].endedAt = s.now,
                       !.meetings[id].duration =
                           ElapsedMinutes(s.sessionObjs[sid].startTime, s.now)],
             Task("end", "summary", id, sid, name, NoSub, via, <<>>, FALSE))

\* the guard failed: 'Meeting or session not found' is thrown before any write
endStampedThenRejected(s, id) ==
  [s EXCEPT !.meetings = IF Has(s.meetings, id)
                         THEN [@ EXCEPT ![id].status = "completed", ![id].endedAt = s.now]
                         ELSE @,
            !.lastOp = Op("endMeeting", id, FALSE, "Failed to end meeting", "NotFound", FALSE)]

endRejected(s, id) ==
  [s EXCEPT !.lastOp = Op("endMeeting", id, FALSE, "Failed to end meeting", "NotFound", FALSE)]

endMeeting(s, id) ==
  IF ~EndGuard(s, id)
  THEN endRejected(s, id)
  ELSE endBegin(s, id, "manual", "")

EndMeeting(id) ==
  /\ ~scope.scripted
  /\ \E r \in {endMeeting(State, id)} : BagCardinality(r.tasks) <= scope.tasks /\ Commit(r)

\* ---- submitStandupResponse --------------------------------------------------
\* checkMeetingCompletion's count, on the session registered for the id
CompletedParticipants(session) ==
  Cardinality({n \in DOMAIN session.activeStandupSessions :
                 Truthy(session.activeStandupSessions[n].isComplete)})

SomeComplete(session) == CompletedParticipants(session) >= 1

AllComplete(session) == CompletedParticipants(session) = Len(session.participants)

\* checkMeetingCompletion, called by a submitStandupResponse that saw isComplete
checkMeetingCompletion(s, id, name) ==
  IF ~Has(s.activeSessions, id)
  THEN \* session.activeStandupSessions of undefined: a TypeError the caller wraps
       [s EXCEPT !.lastOp = Op("submitStandupResponse", id, FALSE,
                               "Failed to submit standup response", "TypeError", FALSE)]
  ELSE IF AllComplete(s.sessionObjs[s.activeSessions[id]])
  THEN IF EndGuard(s, id)
       THEN endBegin(s, id, "submit", name)
       ELSE [s EXCEPT !.lastOp = Op("submitStandupResponse", id, FALSE,
                                    "Failed to submit standup response", "NotFound", FALSE)]
  ELSE [s EXCEPT !.lastOp = Op("submitStandupResponse", id, TRUE, "", "complete", FALSE)]

\* submitStandupResponse after `await aiService.processStandupResponse(...)`, on
\* the session object it read before the await
submitResume(s, id, sid, name, updated) ==
  LET stored == [s EXCEPT !.sessionObjs[sid].activeStandupSessions = MapSet(@, name, updated)]
  IN IF ~Truthy(updated.isComplete)
     THEN [stored EXCEPT !.lastOp = Op("submitStandupResponse", id, TRUE, "", "", FALSE)]
     ELSE checkMeetingCompletion(
            [stored EXCEPT !.sessionObjs[sid].responses =
                MapSet(@, IndexOf(s.sessionObjs[sid].participants, name), updated.responses)],
            id, name)

\* no sub-session for the participant: 'Standup session not found for
\* participant' is thrown before any write
submitAccepted(s, id) ==
  [s EXCEPT !.lastOp = Op("submitStandupResponse", id, TRUE, "", "", FALSE)]

submitRejected(s, id) ==
  [s EXCEPT !.lastOp = Op("submitStandupResponse", id, FALSE,
                          "Failed to submit standup response", "NotFound", FALSE)]

submitStandupResponse(s, id, name, answer) ==
  IF ~Has(s.activeSessions, id)
  THEN [s EXCEPT !.lastOp = Op("submitStandupResponse", id, FALSE,
                               "Failed to submit standup response", "NotFound", FALSE)]
  ELSE LET sid == s.activeSessions[id]
           session == s.sessionObjs[sid]
       IN IF ~Has(session.activeStandupSessions, name)
          THEN submitRejected(s, id)
          ELSE LET standupSession == session.activeStandupSessions[name]
                   questionIndex == standupSession.currentQuestionIndex
                   updated == UpdatedSession(standupSession, questionIndex)
                   answered == [s EXCEPT !.answerArrs[standupSession.responses] =
                                           StoreAnswer(@, questionIndex, answer)]
               IN IF NeedsAI(questionIndex, answer)
                  THEN Suspend(answered, Task("submit", "ack", id, sid, name, updated,
                                              "submit", <<>>, FALSE))
                  ELSE submitResume(answered, id, sid, name, updated)

\* a submitStandupResponse of name is suspended
Answering(suspended, name) ==
  \E t \in BagToSet(suspended) : t.kind = "submit" /\ t.participantName = name

\* in the question flow a participant answers the three questions one at a time;
\* a caller who has no sub-session is turned away whatever the answer
SubmitStandupResponse(id, name, answer) ==
  /\ name \in scope.callers
  /\ SubSessionOf(State, id, name) = {} => answer \in AnswersFor(0)
  /\ \A sub \in SubSessionOf(State, id, name) :
        /\ sub.currentQuestionIndex < scope.answers
        /\ answer \in AnswersFor(sub.currentQuestionIndex)
        /\ sub.currentQuestionIndex = 2 => answer \in scope.blockers
        /\ scope.scripted => sub.currentQuestionIndex < 3
  /\ scope.scripted => SubSessionOf(State, id, name) # {} /\ ~Answering(tasks, name)
  /\ \E r \in {submitStandupResponse(State, id, name, answer)} :
        BagCardinality(r.tasks) <= scope.tasks /\ Commit(r)

\* generateResponse returned to a suspended submitStandupResponse
SubmitAck(t) ==
  /\ t.kind = "submit"
  /\ \E r \in {submitResume(Drop(State, t), t.meetingId, t.session, t.participantName,
                               t.updated)} :
        BagCardinality(r.tasks) <= scope.tasks /\ Commit(r)

\* ---- getActiveSessions ---------------------------------------------------------
\* the entry of one live session: {meetingId, participants, startTime,
\* completedParticipants}
SessionSummaryJoined(s, id) ==
  LET session == s.sessionObjs[s.activeSessions[id]]
  IN [meetingId |-> id, participants |-> session.participants,
      startTime |-> session.startTime,
      completedParticipants |-> Cardinality(DOMAIN session.activeStandupSessions)]

SessionSummary(s, id) ==
  LET session == s.sessionObjs[s.activeSessions[id]]
  IN [meetingId |-> id, participants |-> session.participants,
      startTime |-> session.startTime,
      completedParticipants |-> CompletedParticipants(session)]

\* Array.from(this.activeSessions.entries()).map(...): one entry per live session,
\* kept here by meeting id
getActiveSessions(s) ==
  [s EXCEPT !.lastOp = [Op("getActiveSessions", 0, TRUE, "", "", FALSE)
                          EXCEPT !.result = [id \in DOMAIN s.activeSessions |->
                                               SessionSummary(s, id)]]]

GetActiveSessions ==
  /\ scope.reads
  /\ Commit(getActiveSessions(State))

\* ---- endMeeting after its first await -----------------------------------------
\* how the call that ran the finalizer returns to its caller
EndReturn(t, ok, cause) ==
  Op(IF t.via = "submit" THEN "submitStandupResponse" ELSE "endMeeting", t.meetingId, ok,
     IF ok THEN ""
     ELSE IF t.via = "submit" THEN "Failed to submit standup response"
     ELSE "Failed to end meeting",
     cause, TRUE)

\* analyzeBlockers asks the analysis collaborator (generateResponse) unless the
\* list is empty
AnalysisCalled(blockers) == blockers # <<>>

\* requiresEscalation as analyzeBlockers computes it: false without a call for an
\* empty list, else the keyword test over the analysis text and the blockers text
RequiresEscalationUnguarded(blockers, analysisUrgent) ==
  \/ analysisUrgent
  \/ \E i \in 1..Len(blockers) : ContainsUrgent(blockers[i].blocker)

RequiresEscalation(blockers, analysisUrgent) ==
  /\ blockers # <<>>
  /\ \/ analysisUrgent
     \/ \E i \in 1..Len(blockers) : ContainsUrgent(blockers[i].blocker)

\* summarizeMeeting's generateResponse returned: extractBlockers reads the response
\* table now.  analyzeBlockers runs next and touches nothing shared, so its await is
\* part of this step; sendMeetingSummary is awaited after it
endSummarized(s, t, analysisUrgent) ==
  LET blockers == extractBlockers(s, s.sessionObjs[t.session])
  IN Suspend(Drop(s, t), [t EXCEPT !.pc = "email", !.blockers = blockers,
                                   !.analysed = AnalysisCalled(blockers),
                                   !.requiresEscalation =
                                       RequiresEscalation(blockers, analysisUrgent)])

EndSummarized(t, analysisUrgent) ==
  /\ t.kind = "end" /\ t.pc = "summary"
  /\ Commit(endSummarized(State, t, analysisUrgent))

\* emailService.sendMeetingSummary returned (sent) or threw.  alertTeamLead runs
\* next when escalation is required; it catches its own errors and touches nothing
\* shared, so its await is part of this step; updateTasksFromMeeting is awaited
\* after it
endMailed(s, t, sent) ==
  IF sent
  THEN Suspend(Drop(s, t), [t EXCEPT !.pc = "devops",
                                     !.alerts = IF t.requiresEscalation THEN 1 ELSE 0])
  ELSE [Drop(s, t) EXCEPT !.lastOp = EndReturn(t, FALSE, "email")]

EndMailed(t, sent) ==
  /\ t.kind = "end" /\ t.pc = "email"
  /\ Commit(endMailed(State, t, sent))

\* devopsService.updateTasksFromMeeting returned (it logs what fails inside):
\* this.activeSessions.delete(meetingId) and the result is returned
endSynced(s, t) ==
  [Drop(s, t) EXCEPT !.activeSessions = MapDelete(@, t.meetingId),
                     !.lastOp = EndReturn(t, TRUE, "")]

EndSynced(t) ==
  /\ t.kind = "end" /\ t.pc = "devops"
  /\ Commit(endSynced(State, t))

\* ---- specification ----------------------------------------------------------
\* the ids requests are made with
Ids == 1..scope.meetings

Next ==
  \/ \E spec \in MeetingSpecs, t \in 0..MaxTime : ScheduleMeeting(spec, t)
  \/ \E id \in Ids, sent \in BOOLEAN : StartMeeting(id, sent)
  \/ \E id \in Ids, sent \in BOOLEAN : TimerFire(id, sent)
  \/ \E id \in Ids, sent \in BOOLEAN : CronFire(id, sent)
  \/ \E id \in Ids, sent \in BOOLEAN : CancelMeeting(id, sent)
  \/ \E id \in Ids : GetMeeting(id)
  \/ \E userId \in Names : GetMeetings(userId)
  \/ GetActiveSessions
  \/ \E id \in Ids, name \in Names : JoinMeeting(id, name)
  \/ \E id \in Ids, name \in Names, answer \in Answers :
        SubmitStandupResponse(id, name, answer)
  \/ \E t \in BagToSet(tasks) : SubmitAck(t)
  \/ \E id \in Ids : EndMeeting(id)
  \/ \E t \in BagToSet(tasks), analysisUrgent \in BOOLEAN : EndSummarized(t, analysisUrgent)
  \/ \E t \in BagToSet(tasks), sent \in BOOLEAN : EndMailed(t, sent)
  \/ \E t \in BagToSet(tasks) : EndSynced(t)
  \/ Tick

Spec == Init /\ [][Next]_vars

\* ---- utilities: retryAsync --------------------------------------------------
\* i === maxRetries - 1: the failure of this attempt is rethrown
LastAttemptLate(i, maxRetries) == i = maxRetries

LastAttempt(i, maxRetries) == i = maxRetries - 1

\* baseDelay * Math.pow(2, i)
Backoff(baseDelay, i) == baseDelay * 2^i

\* retryAsync(fn, maxRetries, baseDelay) is called
RetryCalled(maxRetries, baseDelay) ==
  [NoRetry EXCEPT !.pc = "loop", !.maxRetries = maxRetries, !.baseDelay = baseDelay]

\* the loop test i < maxRetries: fn is invoked, or the loop is left and the call
\* returns undefined
retryLoop(r) ==
  IF r.i < r.maxRetries
  THEN [r EXCEPT !.pc = "fn"]
  ELSE [r EXCEPT !.pc = "returned", !.result = <<"undefined">>]

\* `return await fn()` settled: the value is returned; an error is rethrown on the
\* last attempt and otherwise followed by the backoff delay
retrySettled(r, ok) ==
  LET tried == [r EXCEPT !.outcomes = Append(@, ok)]
  IN IF ok
     THEN [tried EXCEPT !.pc = "returned", !.result = <<"value", Len(tried.outcomes)>>]
     ELSE IF LastAttempt(r.i, r.maxRetries)
     THEN [tried EXCEPT !.pc = "threw", !.result = <<"error", Len(tried.outcomes)>>]
     ELSE [tried EXCEPT !.pc = "delay", !.delays = Append(@, Backoff(r.baseDelay, r.i))]

\* the setTimeout of the delay ran: i++
retryWoken(r) == [r EXCEPT !.pc = "loop", !.i = @ + 1]

RetryLoop ==
  /\ retry.pc = "loop"
  /\ retry' = retryLoop(retry)
  /\ UNCHANGED <<serviceVars, occurrence>>

RetrySettled(ok) ==
  /\ retry.pc = "fn"
  /\ retry' = retrySettled(retry, ok)
  /\ UNCHANGED <<serviceVars, occurrence>>

RetryWoken ==
  /\ retry.pc = "delay"
  /\ retry' = retryWoken(retry)
  /\ UNCHANGED <<serviceVars, occurrence>>

\* ---- utilities: getNextOccurrence --------------------------------------------
\* nextTime.add(1, 'day'), nextTime.add(1, 'week')
Period(recurrence) == IF recurrence = "daily" THEN DayLen ELSE 7 * DayLen

\* getNextOccurrence(time, timezone, recurrence), with the clock at n
getNextOccurrence(call, n) ==
  IF IsBefore(call.time, n)
  THEN IF call.recurrence \in {"daily", "weekly"}
       THEN [call EXCEPT !.pc = "returned", !.now = n,
                         !.result = call.time + Period(call.recurrence)]
       ELSE [call EXCEPT !.pc = "threw", !.now = n, !.ok = FALSE]
  ELSE [call EXCEPT !.pc = "returned", !.now = n, !.result = call.time]

OccurrenceCalled(time, recurrence) ==
  [NoOccurrence EXCEPT !.pc = "called", !.time = time, !.recurrence = recurrence]

GetNextOccurrence ==
  /\ occurrence.pc = "called"
  /\ occurrence' = getNextOccurrence(occurrence, now)
  /\ UNCHANGED <<serviceVars, retry>>

\* ---- specification of the utilities ----------------------------------------
\* the scope of an exploration without meetings
Utilities ==
  [specs |-> {}, meetings |-> 0, sessions |-> 0, tasks |-> 0, answers |-> 0,
   lastInstant |-> MaxWeeks * 7 * DayLen, blockers |-> {}, scripted |-> FALSE,
   reads |-> FALSE, results |-> FALSE, outages |-> FALSE, callers |-> {}]

\* one call of one utility, with any arguments, at any instant of the clock
UtilInit ==
  /\ now \in 0..Utilities.lastInstant
  /\ Constructed
  /\ scope = Utilities
  /\ \/ /\ retry \in {RetryCalled(maxRetries, baseDelay) :
                         maxRetries \in 0..MaxRetries, baseDelay \in 1..MaxBaseDelay}
        /\ occurrence = NoOccurrence
        /\ now = 0
     \/ /\ retry = NoRetry
        /\ occurrence \in {OccurrenceCalled(time, recurrence) :
                              time \in 0..Utilities.lastInstant, recurrence \in Recurrences}

UtilNext ==
  \/ RetryLoop
  \/ \E ok \in BOOLEAN : RetrySettled(ok)
  \/ RetryWoken
  \/ GetNextOccurrence

\* fn settles, the timer of the delay runs, and a continuation that can run does
UtilSpec == UtilInit /\ [][UtilNext]_vars /\ WF_vars(UtilNext)

\* ---- what the operations are expected to guarantee ----------------------------
StatusChanges ==
  {<<"scheduled", "in-progress">>, <<"in-progress", "completed">>,
   <<"scheduled", "cancelled">>, <<"in-progress", "cancelled">>}

Terminal == {"completed", "cancelled"}

\* the step is a startMeeting for id, by a request or by a fired trigger
StartReturned(id) ==
  lastOp'.op \in {"startMeeting", "timerFire", "cronFire"} /\ lastOp'.id = id

\* the step fires the trigger that scheduleMeeting created for id
TriggerFires(id) ==
  \/ id \in timers /\ id \notin timers'
  \/ id \in scheduledJobs /\ id \notin cronFired /\ id \in cronFired'

\* endMeeting runs for id that wait for summarizeMeeting, among suspended calls
RunsBegun(suspended, id) ==
  BagCardinality([t \in {u \in BagToSet(suspended) :
                           u.kind = "end" /\ u.pc = "summary" /\ u.meetingId = id}
                    |-> suspended[t]])

\* a one-time scheduleMeeting has just returned
OneTimeReturned ==
  /\ lastOp.op = "scheduleMeeting"
  /\ Has(meetings, lastOp.id)
  /\ meetings[lastOp.id].recurrence = "none"

\* C1: every change of a meeting's status is scheduled -> in-progress,
\* in-progress -> completed, scheduled -> cancelled or in-progress -> cancelled
C1_OnlyAllowedStatusChanges ==
  [][\A id \in DOMAIN meetings :
        meetings'[id].status # meetings[id].status
          => <<meetings[id].status, meetings'[id].status>> \in StatusChanges]_vars

\* C2: the body of endMeeting runs at most once per meeting: a meeting that a run
\* has already stamped with endedAt never has another run begin
C2_FinalizerAtMostOnce ==
  [][\A id \in DOMAIN meetings :
        meetings[id].endedAt # NoTime => RunsBegun(tasks', id) <= RunsBegun(tasks, id)]_vars

\* C3: in every live session and for every index i of its participants,
\* responses[i] is populated iff the sub-session stored for participants[i] is
\* complete
C3_ResponsesIffComplete ==
  \A id \in DOMAIN activeSessions :
     LET session == sessionObjs[activeSessions[id]]
     IN \A i \in 1..Len(session.participants) :
           Has(session.responses, i)
             <=> /\ Has(session.activeStandupSessions, session.participants[i])
                 /\ Truthy(session.activeStandupSessions[session.participants[i]].isComplete)

\* C4: once cancelMeeting has been applied to a scheduled meeting, the trigger
\* scheduleMeeting created for it never fires
C4_CancelledTriggerNeverFires ==
  [][\A id \in cancelledScheduled : ~TriggerFires(id)]_vars

\* C5: startMeeting on a meeting that is not scheduled leaves its status, its
\* startedAt and the live sessions with their sub-sessions and answers unchanged
C5_StartOnlyFromScheduled ==
  [][\A id \in DOMAIN meetings :
        (StartReturned(id) /\ meetings[id].status # "scheduled")
          => /\ meetings'[id].status = meetings[id].status
             /\ meetings'[id].startedAt = meetings[id].startedAt
             /\ activeSessions' = activeSessions
             /\ sessionObjs' = sessionObjs
             /\ answerArrs' = answerArrs]_vars

\* C6: a status of completed or cancelled never changes again
C6_TerminalStatusIsFinal ==
  [][\A id \in DOMAIN meetings :
        meetings[id].status \in Terminal => meetings'[id].status = meetings[id].status]_vars

\* C7: a one-time scheduleMeeting fails on the past-schedule check when the
\* instant is before now, and succeeds with status scheduled when it is after now
C7_PastFailsFutureSucceeds ==
  OneTimeReturned
    => /\ meetings[lastOp.id].scheduledTime < now
            => ~lastOp.ok /\ lastOp.cause = "past"
       /\ meetings[lastOp.id].scheduledTime > now
            => lastOp.ok /\ meetings[lastOp.id].status = "scheduled"

\* a one-time scheduleMeeting for an instant before now has returned
C7_PastScheduleRejected ==
  /\ OneTimeReturned
  /\ meetings[lastOp.id].scheduledTime < now
  /\ ~lastOp.ok

\* C8: a scheduleMeeting that fails on the past-schedule check leaves the
\* registry, the live sessions and the triggers as they were
C8_FailedScheduleLeavesNoTrace ==
  [][(lastOp'.op = "scheduleMeeting" /\ ~lastOp'.ok)
        => /\ meetings' = meetings
           /\ activeSessions' = activeSessions
           /\ timers' = timers
           /\ scheduledJobs' = scheduledJobs]_vars

\* C9: when an endMeeting run that set the status to completed has returned,
\* with or without a collaborator failure, the session of its meeting is gone
C9_SessionDiscardedByRun ==
  lastOp.finalizer => ~Has(activeSessions, lastOp.id)

\* C10: a collaborator failure does not abort the run: the call that ran the body
\* of endMeeting (endMeeting, or the last participant's submitStandupResponse)
\* returns success
C10_CollaboratorFailureNotFatal ==
  lastOp.finalizer => lastOp.ok

\* the sub-sessions of the session registered for id
SubSessions(id) == sessionObjs[activeSessions[id]].activeStandupSessions

\* C12: joinMeeting by a participant the meeting does not list fails as not
\* invited and leaves the meeting record and the session (sub-session map,
\* response table, answers) as they were; no sub-session ever exists for a name
\* the meeting does not list
C12_UninvitedJoinRejected ==
  [][lastOp'.op = "joinMeeting"
       => /\ lastOp'.cause = "NotInvited"
               => /\ ~lastOp'.ok
                  /\ meetings' = meetings
                  /\ activeSessions' = activeSessions
                  /\ sessionObjs' = sessionObjs
                  /\ answerArrs' = answerArrs
          /\ \A id \in DOMAIN activeSessions' :
                \A n \in DOMAIN sessionObjs'[activeSessions'[id]].activeStandupSessions :
                   Includes(meetings'[id].participants, n)]_vars

\* a join was rejected as not invited while the session held a sub-session
C12_UninvitedJoinSeen ==
  /\ lastOp.op = "joinMeeting"
  /\ lastOp.cause = "NotInvited"
  /\ Has(activeSessions, lastOp.id)
  /\ SubSessions(lastOp.id) # <<>>

\* C13: joinMeeting by a participant who already has a sub-session leaves that
\* sub-session (answers, currentQuestionIndex, isComplete) as it is
C13_RejoinKeepsProgress ==
  [][lastOp'.op = "joinMeeting"
       => \A id \in DOMAIN activeSessions :
             \A n \in DOMAIN SubSessions(id) :
                /\ Has(activeSessions', id)
                /\ Has(sessionObjs'[activeSessions'[id]].activeStandupSessions, n)
                /\ sessionObjs'[activeSessions'[id]].activeStandupSessions[n].currentQuestionIndex
                     = SubSessions(id)[n].currentQuestionIndex
                /\ sessionObjs'[activeSessions'[id]].activeStandupSessions[n].isComplete
                     = SubSessions(id)[n].isComplete
                /\ answerArrs'[sessionObjs'[activeSessions'[id]].activeStandupSessions[n].responses]
                     = answerArrs[SubSessions(id)[n].responses]]_vars

\* the suspended submitStandupResponse t resumes in this step, and the sub-session
\* stored for its participant is still the one it read
SubmitResumes(t) ==
  /\ t.kind = "submit"
  /\ CopiesIn(t, tasks') < CopiesIn(t, tasks)
  /\ Has(activeSessions, t.meetingId)
  /\ activeSessions[t.meetingId] = t.session
  /\ Has(SubSessions(t.meetingId), t.participantName)
  /\ SubSessions(t.meetingId)[t.participantName].responses = t.updated.responses

\* C14: overlapping submitStandupResponse calls of one participant behave as if
\* run one after the other: each call that stores its result advances the stored
\* currentQuestionIndex by one, and every answer submitted so far is recorded
C14_SubmitsAsIfSerialized ==
  [][\A t \in BagToSet(tasks) :
        SubmitResumes(t)
          => LET stored == sessionObjs'[t.session].activeStandupSessions[t.participantName]
             IN /\ stored.currentQuestionIndex
                     = SubSessions(t.meetingId)[t.participantName].currentQuestionIndex + 1
                /\ Len(answerArrs'[stored.responses]) = stored.currentQuestionIndex]_vars

\* every participant listed for the session has a stored sub-session with three
\* answers given
EveryoneAnswered(session) ==
  \A i \in 1..Len(session.participants) :
     /\ Has(session.activeStandupSessions, session.participants[i])
     /\ session.activeStandupSessions[session.participants[i]].currentQuestionIndex >= 3

\* C15: once every listed participant of a started facilitated meeting has joined
\* and given three answers, the meeting gets completed: it is never left in
\* progress with no call in flight that would finalize it
C15_AllAnsweredGetsCompleted ==
  \A id \in DOMAIN activeSessions :
     (/\ meetings[id].status = "in-progress"
      /\ meetings[id].isVirtualScrumMaster
      /\ EveryoneAnswered(sessionObjs[activeSessions[id]]))
       => tasks # EmptyBag

\* the suspended endMeeting run t moves on in this step
RunResumes(t, pc) ==
  t.kind = "end" /\ t.pc = pc /\ CopiesIn(t, tasks') < CopiesIn(t, tasks)

\* an answer to the blockers question that reports a blocker
RealBlocker(answer) == answer \in {"blocked urgent", "cannot proceed"}

\* the run t is of a one-participant meeting whose recorded third answer reports
\* a blocker
SoleBlockerReported(t) ==
  LET session == sessionObjs[t.session]
  IN /\ Len(session.participants) = 1
     /\ Has(session.responses, 1)
     /\ Len(answerArrs[session.responses[1]]) >= 3
     /\ RealBlocker(answerArrs[session.responses[1]][3].answer)

\* C16: a run of endMeeting whose blocker analysis requires escalation dispatches
\* exactly one alert, a run whose analysis does not dispatches none; and the
\* analysis of a one-participant meeting whose third answer reports a blocker is
\* given a non-empty blocker list
C16_AlertIffEscalation ==
  [][\A t \in BagToSet(tasks) :
        /\ RunResumes(t, "email")
             => IF t.requiresEscalation
                THEN [t EXCEPT !.pc = "devops", !.alerts = 1] \in BagToSet(tasks')
                ELSE \A u \in BagToSet(tasks') :
                        u = [t EXCEPT !.pc = "devops", !.alerts = u.alerts] => u.alerts = 0
        /\ (RunResumes(t, "summary") /\ SoleBlockerReported(t))
             => \E u \in BagToSet(tasks') :
                   /\ u = [t EXCEPT !.pc = "email", !.blockers = u.blockers,
                                    !.analysed = u.analysed,
                                    !.requiresEscalation = u.requiresEscalation]
                   /\ u.blockers # <<>>]_vars

\* the operations that take the id of an existing meeting
ById == {"startMeeting", "joinMeeting", "submitStandupResponse", "endMeeting",
         "cancelMeeting", "getMeeting"}

\* C18: startMeeting, joinMeeting, submitStandupResponse, endMeeting,
\* cancelMeeting and getMeeting with an id the registry does not hold fail as
\* not found and leave the registry, the sessions and the triggers as they were
C18_UnknownIdRejected ==
  [][\A id \in MeetingIds :
        (~Has(meetings, id) /\ lastOp'.id = id /\ lastOp'.op \in ById)
          => /\ ~lastOp'.ok
             /\ lastOp'.cause = "NotFound"
             /\ meetings' = meetings
             /\ activeSessions' = activeSessions
             /\ sessionObjs' = sessionObjs
             /\ answerArrs' = answerArrs
             /\ timers' = timers
             /\ scheduledJobs' = scheduledJobs]_vars

\* a call with an id the registry does not hold has failed
C18_UnknownIdSeen ==
  /\ lastOp.op \in ById
  /\ ~Has(meetings, lastOp.id)
  /\ ~lastOp.ok

\* C19: cancelMeeting on an in-progress meeting sets its status to cancelled,
\* destroys its recurring job if it has one, and leaves the live session
\* (participants, sub-sessions, response table, answers) as it was
C19_CancelInProgressKeepsSession ==
  [][\A id \in DOMAIN meetings :
        (lastOp'.op = "cancelMeeting" /\ lastOp'.id = id /\ meetings[id].status = "in-progress")
          => /\ lastOp'.ok
             /\ meetings'[id].status = "cancelled"
             /\ id \notin scheduledJobs'
             /\ activeSessions' = activeSessions
             /\ sessionObjs' = sessionObjs
             /\ answerArrs' = answerArrs]_vars

\* a started daily meeting that never ended was cancelled while its session held
\* a sub-session; the session is still there and the job is gone
C19_InProgressCancelled ==
  /\ lastOp.op = "cancelMeeting"
  /\ lastOp.ok
  /\ meetings[lastOp.id].recurrence = "daily"
  /\ meetings[lastOp.id].startedAt # NoTime
  /\ meetings[lastOp.id].endedAt = NoTime
  /\ Has(activeSessions, lastOp.id)
  /\ SubSessions(lastOp.id) # <<>>
  /\ lastOp.id \notin scheduledJobs

\* C20: a pending one-time timer or a registered recurring job exists for a
\* meeting only while the meeting's status is scheduled
C20_TriggerOnlyWhileScheduled ==
  \A id \in timers \cup scheduledJobs : meetings[id].status = "scheduled"

\* the question flow so far, for the meeting registered as id: a sub-session that
\* took its third answer is complete; a run of endMeeting works on a fully
\* populated response table; and once everyone has answered a run has begun
FlowOnTrack(id) ==
  /\ Has(activeSessions, id)
       => LET session == sessionObjs[activeSessions[id]]
          IN /\ \A n \in DOMAIN session.activeStandupSessions :
                   session.activeStandupSessions[n].currentQuestionIndex = 3
                     => Truthy(session.activeStandupSessions[n].isComplete)
             /\ EveryoneAnswered(session) => meetings[id].endedAt # NoTime
  /\ \A t \in BagToSet(tasks) :
        (t.kind = "end" /\ t.meetingId = id)
          => /\ t.via = "submit"
             /\ \A i \in 1..Len(sessionObjs[t.session].participants) :
                   Has(sessionObjs[t.session].responses, i)

\* the answers the participants of meeting id gave so far still count in the
\* next state: every sub-session is still there, no question set back
AnswersKept(id) ==
  Has(activeSessions, id)
    => \A n \in DOMAIN SubSessions(id) :
          /\ Has(activeSessions', id)
          /\ n \in DOMAIN SubSessions(id)'
          /\ SubSessions(id)'[n].currentQuestionIndex
               >= SubSessions(id)[n].currentQuestionIndex

\* C11: in the question flow of a started facilitated meeting (two distinct
\* participants join and answer three questions each, their calls interleaved in
\* any way) each sub-session is complete after its third answer (the answers
\* given count until the meeting ends, and the sub-session that took the third
\* is complete), the response table is fully populated when endMeeting starts,
\* and endMeeting is invoked by the flow exactly once
C11_FlowCompletesOnce ==
  [][scope.scripted
       => \A id \in DOMAIN meetings' :
             /\ FlowOnTrack(id)'
             /\ (Has(meetings, id) /\ meetings'[id].endedAt = NoTime) => AnswersKept(id)
             /\ (Has(meetings, id) /\ meetings[id].endedAt # NoTime)
                  => RunsBegun(tasks', id) <= RunsBegun(tasks, id)]_vars

\* what belongs to the meeting id: its record, its live session with the answers
\* the session holds, and its trigger
FrameOf(id) ==
  [meeting |-> IF Has(meetings, id) THEN <<meetings[id]>> ELSE <<>>,
   session |-> IF Has(activeSessions, id)
               THEN LET session == sessionObjs[activeSessions[id]]
                    IN <<session,
                         [n \in DOMAIN session.activeStandupSessions |->
                            answerArrs[session.activeStandupSessions[n].responses]],
                         [i \in DOMAIN session.responses |-> answerArrs[session.responses[i]]]>>
               ELSE <<>>,
   trigger |-> <<id \in timers, id \in scheduledJobs>>]

\* C17: an operation on one meeting id leaves the record, the session and the
\* trigger of every other id unchanged: a step that is a call for id a, or that
\* changes what belongs to a, changes nothing that belongs to another id b
C17_OtherMeetingsUntouched ==
  [][\A a \in MeetingIds, b \in MeetingIds :
        (a # b /\ (lastOp'.id = a \/ FrameOf(a)' # FrameOf(a)))
          => FrameOf(b)' = FrameOf(b)]_vars

\* a call for the second meeting has returned while the first, started and
\* joined, stays as it was
C17_TwoMeetingsLive ==
  /\ lastOp.id = 2
  /\ Has(activeSessions, 1)
  /\ Has(activeSessions, 2)
  /\ SubSessions(1) # <<>>
  /\ meetings[1].status # meetings[2].status

\* C21: scheduleMeeting with recurrence weekly fails fast: no meeting record with
\* that recurrence is ever registered, and none ever holds a trigger
C21_WeeklyFailsFast ==
  \A id \in DOMAIN meetings : meetings[id].recurrence # "weekly"

\* C22: getMeetings(userId) returns exactly the registered meetings that list
\* userId as a participant or were created by userId, each once, in the order
\* they were registered, and changes nothing
C22_ListsOwnMeetingsInOrder ==
  [][lastOp'.op = "getMeetings"
       => /\ \A i \in 1..Len(lastOp'.result) :
                /\ Has(meetings, lastOp'.result[i])
                /\ \/ Includes(meetings[lastOp'.result[i]].participants, lastOp'.userId)
                   \/ meetings[lastOp'.result[i]].createdBy = lastOp'.userId
          /\ \A id \in DOMAIN meetings :
                (\/ Includes(meetings[id].participants, lastOp'.userId)
                 \/ meetings[id].createdBy = lastOp'.userId)
                  => Cardinality({i \in 1..Len(lastOp'.result) : lastOp'.result[i] = id}) = 1
          /\ \A i \in 1..Len(lastOp'.result), j \in 1..Len(lastOp'.result) :
                i < j => lastOp'.result[i] < lastOp'.result[j]
          /\ UNCHANGED <<now, meetings, activeSessions, scheduledJobs, timers, cronFired,
                         sessionObjs, answerArrs, tasks, cancelledScheduled>>]_vars

\* a listing returned two meetings, the first of them one that the user created
\* without being listed in it
C22_OwnedAndListedReturned ==
  /\ lastOp.op = "getMeetings"
  /\ Len(lastOp.result) = 2
  /\ ~Includes(meetings[lastOp.result[1]].participants, lastOp.userId)
  /\ Includes(meetings[lastOp.result[2]].participants, lastOp.userId)

\* error.message.includes('not found'), the test the join and standup-response
\* routes make on the error they caught, over the messages the service throws
MentionsNotFound(err) == err \in {"Meeting not found"}

\* the error kind a caller can tell from the error it received
KindSeen(err) == IF MentionsNotFound(err) THEN "NotFound" ELSE "Error"

\* C23: a failure reaches the caller as its named error kind: a joinMeeting
\* without a live session and a submitStandupResponse without a sub-session as
\* not found, a joinMeeting by a participant the meeting does not list as not
\* invited
C23_FailuresKeepTheirKind ==
  (/\ lastOp.op \in {"joinMeeting", "submitStandupResponse"}
   /\ ~lastOp.ok
   /\ lastOp.cause \in {"NotFound", "NotInvited"})
    => KindSeen(lastOp.err) = lastOp.cause

\* the answers of a sub-session are those to the questions 0, 1, 2, ... in that
\* order, and the sub-session is complete exactly from index 3 on
AskedInOrder(sub, arrs) ==
  /\ \A k \in 1..Len(arrs[sub.responses]) : arrs[sub.responses][k].question = k - 1
  /\ Truthy(sub.isComplete) <=> sub.currentQuestionIndex >= 3

\* C24: a submitStandupResponse that succeeds has recorded its answer against the
\* question at the current index and advances currentQuestionIndex by exactly
\* one; the answers of every sub-session are those to questions 0, 1, 2 in that
\* order, and isComplete is true exactly when currentQuestionIndex >= 3
C24_OneQuestionAtATime ==
  [][/\ \A t \in BagToSet(tasks) :
           SubmitResumes(t)
             => LET before == SubSessions(t.meetingId)[t.participantName]
                    after == sessionObjs'[t.session].activeStandupSessions[t.participantName]
                IN /\ after.currentQuestionIndex = before.currentQuestionIndex + 1
                   /\ Len(answerArrs'[after.responses]) >= after.currentQuestionIndex
                   /\ answerArrs'[after.responses][after.currentQuestionIndex].question
                        = before.currentQuestionIndex
     /\ \A id \in DOMAIN activeSessions' :
           \A n \in DOMAIN SubSessions(id)' :
              AskedInOrder(SubSessions(id)'[n], answerArrs')]_vars

\* the run t of endMeeting begins in this step, called by checkMeetingCompletion
BegunBySubmit(t) ==
  /\ t.kind = "end" /\ t.via = "submit" /\ t.pc = "summary"
  /\ CopiesIn(t, tasks') > CopiesIn(t, tasks)

\* C25: a sub-session has currentQuestionIndex in 0..3 and at most three answers;
\* a submitStandupResponse by a participant whose sub-session is already complete
\* records no fourth answer and does not make checkMeetingCompletion run
\* endMeeting
C25_NoFourthAnswer ==
  [][/\ \A id \in DOMAIN activeSessions' :
           \A n \in DOMAIN SubSessions(id)' :
              /\ SubSessions(id)'[n].currentQuestionIndex \in 0..3
              /\ Len(answerArrs'[SubSessions(id)'[n].responses]) <= 3
     /\ \A t \in BagToSet(tasks') :
           (/\ BegunBySubmit(t)
            /\ Has(activeSessions, t.meetingId)
            /\ Has(SubSessions(t.meetingId), t.participantName))
             => ~Truthy(SubSessions(t.meetingId)[t.participantName].isComplete)]_vars

\* the sub-session of name in the session object sid completes in this step
Completes(sid, name) ==
  /\ Has(sessionObjs, sid) /\ Has(sessionObjs', sid)
  /\ Has(sessionObjs[sid].activeStandupSessions, name)
  /\ ~Truthy(sessionObjs[sid].activeStandupSessions[name].isComplete)
  /\ Has(sessionObjs'[sid].activeStandupSessions, name)
  /\ Truthy(sessionObjs'[sid].activeStandupSessions[name].isComplete)

\* slot i of the response table of the session object sid is as it was
SlotKept(sid, i) ==
  /\ Has(sessionObjs'[sid].responses, i) <=> Has(sessionObjs[sid].responses, i)
  /\ Has(sessionObjs[sid].responses, i)
       => answerArrs'[sessionObjs'[sid].responses[i]] = answerArrs[sessionObjs[sid].responses[i]]

\* C26: when a participant's sub-session completes, its three answers are in the
\* response table at the index the participant has in the participant list, every
\* other slot is as it was, and a run of endMeeting that the completion detector
\* starts finds that slot written
C26_CompletionFillsOwnSlot ==
  [][\A sid \in DOMAIN sessionObjs, name \in Names :
        Completes(sid, name)
          => LET after == sessionObjs'[sid]
                 slot == IndexOf(after.participants, name)
             IN /\ slot \in 1..Len(after.participants)
                /\ after.participants[slot] = name
                /\ Has(after.responses, slot)
                /\ after.responses[slot] = after.activeStandupSessions[name].responses
                /\ Len(answerArrs'[after.responses[slot]]) = 3
                /\ \A i \in 1..Len(after.participants) : i # slot => SlotKept(sid, i)
                /\ \A t \in BagToSet(tasks') :
                      (BegunBySubmit(t) /\ t.session = sid /\ t.participantName = name)
                        => Has(sessionObjs'[t.session].responses, slot)]_vars

\* C27: whenever checkMeetingCompletion calls endMeeting, every participant the
\* session lists has a sub-session that is complete
C27_NoEarlyFinalization ==
  [][\A t \in BagToSet(tasks') :
        BegunBySubmit(t)
          => \A i \in 1..Len(sessionObjs'[t.session].participants) :
                LET name == sessionObjs'[t.session].participants[i]
                IN /\ Has(sessionObjs'[t.session].activeStandupSessions, name)
                   /\ Truthy(sessionObjs'[t.session].activeStandupSessions[name].isComplete)]_vars

\* checkMeetingCompletion has called endMeeting for a session of two participants,
\* on bob's submit
C27_DetectorStartedRun ==
  \E t \in BagToSet(tasks) :
     /\ t.kind = "end" /\ t.via = "submit" /\ t.pc = "summary"
     /\ t.participantName = "bob"
     /\ sessionObjs[t.session].participants = <<"alice", "bob">>

\* the length of the JavaScript array that holds the response table: one more
\* than the highest index written, 0 for the array startMeeting creates
ArrayLength(responses) ==
  IF DOMAIN responses = {} THEN 0
  ELSE CHOOSE i \in DOMAIN responses : \A j \in DOMAIN responses : j <= i

\* C28: startMeeting on a scheduled meeting sets the status to in-progress, stamps
\* startedAt and registers a session for the id whose response table has one
\* slot per participant, all empty, and whose sub-session map is empty
C28_StartCreatesSizedSession ==
  [][\A id \in DOMAIN meetings :
        (StartReturned(id) /\ lastOp'.ok /\ meetings[id].status = "scheduled")
          => /\ meetings'[id].status = "in-progress"
             /\ meetings'[id].startedAt = now
             /\ Has(activeSessions', id)
             /\ sessionObjs'[activeSessions'[id]].meetingId = id
             /\ sessionObjs'[activeSessions'[id]].activeStandupSessions = <<>>
             /\ DOMAIN sessionObjs'[activeSessions'[id]].responses = {}
             /\ ArrayLength(sessionObjs'[activeSessions'[id]].responses)
                  = Len(meetings[id].participants)]_vars

\* C29: endMeeting on a registered meeting that has no live session (never
\* started, or already finalized) fails as not found, starts no run and leaves
\* the meeting's status, endedAt and duration as they were
C29_EndWithoutSessionRejected ==
  \A id \in DOMAIN meetings :
     ~Has(activeSessions, id)
       => \E r \in {endMeeting(State, id)} :
             /\ ~r.lastOp.ok
             /\ r.lastOp.cause = "NotFound"
             /\ r.tasks = tasks
             /\ r.meetings[id].status = meetings[id].status
             /\ r.meetings[id].endedAt = meetings[id].endedAt
             /\ r.meetings[id].duration = meetings[id].duration

\* endMeeting has been refused for a meeting that a run had already completed
\* and whose session is gone
C29_EndAfterFinalizationSeen ==
  /\ lastOp.op = "endMeeting"
  /\ ~lastOp.ok
  /\ ~lastOp.finalizer
  /\ Has(meetings, lastOp.id)
  /\ ~Has(activeSessions, lastOp.id)
  /\ meetings[lastOp.id].status = "completed"
  /\ meetings[lastOp.id].endedAt # NoTime

\* C30: submitStandupResponse for a participant who has no sub-session in the
\* live session (not joined, or no facilitator) fails as not found and leaves the
\* sub-session map, the response table and the answers as they were
C30_SubmitWithoutSubSessionRejected ==
  \A id \in DOMAIN activeSessions, name \in Names, answer \in Answers :
     ~Has(SubSessions(id), name)
       => \E r \in {submitStandupResponse(State, id, name, answer)} :
             /\ ~r.lastOp.ok
             /\ r.lastOp.cause = "NotFound"
             /\ r.tasks = tasks
             /\ r.sessionObjs = sessionObjs
             /\ r.answerArrs = answerArrs

\* a submit has been refused on the live session of a meeting without the
\* facilitator, where joining creates no sub-session
C30_SubmitWithoutFacilitatorSeen ==
  /\ lastOp.op = "submitStandupResponse"
  /\ ~lastOp.ok
  /\ lastOp.cause = "NotFound"
  /\ Has(activeSessions, lastOp.id)
  /\ ~sessionObjs[activeSessions[lastOp.id]].isVirtualScrumMaster
  /\ lastOp.id \in DOMAIN meetings /\ meetings[lastOp.id].status = "in-progress"

\* C31: joinMeeting on a registered meeting that has no live session (still
\* scheduled, or already finalized) fails as not found and creates no session and
\* no sub-session
C31_JoinWithoutSessionRejected ==
  \A id \in DOMAIN meetings, name \in Names :
     ~Has(activeSessions, id)
       => \E r \in {joinMeeting(State, id, name)} :
             /\ ~r.lastOp.ok
             /\ r.lastOp.cause = "NotFound"
             /\ r.activeSessions = activeSessions
             /\ r.sessionObjs = sessionObjs
             /\ r.answerArrs = answerArrs
             /\ r.tasks = tasks

\* a join has been refused for a meeting that a run of endMeeting had completed
\* and whose session is gone
C31_JoinAfterFinalizationSeen ==
  /\ lastOp.op = "joinMeeting"
  /\ ~lastOp.ok
  /\ lastOp.cause = "NotFound"
  /\ Has(meetings, lastOp.id)
  /\ ~Has(activeSessions, lastOp.id)
  /\ meetings[lastOp.id].status = "completed"

\* the run t of endMeeting begins in this step
RunBegins(t) ==
  t.kind = "end" /\ t.pc = "summary" /\ CopiesIn(t, tasks') > CopiesIn(t, tasks)

\* C32: for a meeting without the virtual facilitator, joinMeeting creates no
\* sub-session, so the sub-session map of its session stays empty and its
\* response table unpopulated; checkMeetingCompletion never starts a run of
\* endMeeting for it, and its status becomes completed only in a step that
\* begins a run of endMeeting called by hand
C32_PlainMeetingEndsByHand ==
  [][\A id \in DOMAIN meetings' :
        ~meetings'[id].isVirtualScrumMaster
          => /\ Has(activeSessions', id)
                  => /\ SubSessions(id)' = <<>>
                     /\ sessionObjs'[activeSessions'[id]].responses = <<>>
             /\ \A t \in BagToSet(tasks') : (t.kind = "end" /\ t.meetingId = id) => t.via = "manual"
             /\ (/\ Has(meetings, id)
                 /\ meetings[id].status # "completed"
                 /\ meetings'[id].status = "completed")
                  => \E t \in BagToSet(tasks') :
                        RunBegins(t) /\ t.meetingId = id /\ t.via = "manual"]_vars

\* a listed participant has joined the live session of a meeting without the
\* facilitator and was welcomed without a question flow
C32_PlainJoinSeen ==
  /\ lastOp.op = "joinMeeting"
  /\ lastOp.ok
  /\ Has(activeSessions, lastOp.id)
  /\ ~meetings[lastOp.id].isVirtualScrumMaster
  /\ Includes(meetings[lastOp.id].participants, "alice")
  /\ SubSessions(lastOp.id) = <<>>

\* C33: a failure of the notifier while the meeting-started or the
\* meeting-cancelled notification is sent does not fail the call: startMeeting (by
\* a request or a trigger) still succeeds with the new session registered and the
\* status in-progress, cancelMeeting still succeeds with the status cancelled
C33_NotifierFailureNotFatal ==
  [][\A id \in DOMAIN meetings :
        (lastOp'.id = id /\ lastOp'.cause = "unnotified")
          => /\ lastOp'.ok
             /\ lastOp'.op \in {"startMeeting", "timerFire", "cronFire"}
                  => /\ meetings'[id].status = "in-progress"
                     /\ meetings'[id].startedAt = now
                     /\ Has(activeSessions', id)
                     /\ sessionObjs'[activeSessions'[id]].startTime = now
             /\ lastOp'.op = "cancelMeeting"
                  => /\ meetings'[id].status = "cancelled"
                     /\ id \notin scheduledJobs']_vars

\* the cancellation of an in-progress meeting returned although its notification
\* could not be sent
C33_CancelUnnotifiedSeen ==
  /\ lastOp.op = "cancelMeeting"
  /\ lastOp.cause = "unnotified"
  /\ meetings[lastOp.id].status = "cancelled"
  /\ meetings[lastOp.id].startedAt # NoTime

\* every populated slot of the response table of the session object sid holds a
\* third answer with a negation token
NoBlockerReported(sid) ==
  \A i \in DOMAIN sessionObjs[sid].responses :
     /\ Len(answerArrs[sessionObjs[sid].responses[i]]) >= 3
     /\ ContainsNo(answerArrs[sessionObjs[sid].responses[i]][3].answer)

\* u is the run t as this step leaves it waiting for the summary mail, with what
\* the summary and the analysis found
Analysed(t, u) ==
  /\ u = [t EXCEPT !.pc = "email", !.blockers = u.blockers, !.analysed = u.analysed,
                   !.requiresEscalation = u.requiresEscalation]
  /\ CopiesIn(u, tasks') > CopiesIn(u, tasks)

\* C34: when no populated slot of the response table reports a blocker (every
\* third answer holds a negation token, or no participant completed) the blocker
\* list is empty; with an empty list the analysis collaborator is not called and
\* requiresEscalation is false, and the run dispatches no alert
C34_NoBlockersNoEscalation ==
  [][\A t \in BagToSet(tasks) :
        /\ RunResumes(t, "summary")
             => \A u \in BagToSet(tasks') :
                   Analysed(t, u)
                     => /\ NoBlockerReported(t.session) => u.blockers = <<>>
                        /\ u.blockers = <<>> => ~u.analysed /\ ~u.requiresEscalation
        /\ (RunResumes(t, "email") /\ t.blockers = <<>>)
             => \A u \in BagToSet(tasks') :
                   (/\ u = [t EXCEPT !.pc = "devops", !.alerts = u.alerts]
                    /\ CopiesIn(u, tasks') > CopiesIn(u, tasks))
                     => u.alerts = 0]_vars

\* a run whose only participant answered the blockers question with a negation
\* has mailed the summary without an alert
C34_QuietRunSeen ==
  \E t \in BagToSet(tasks) :
     /\ t.kind = "end" /\ t.pc = "devops"
     /\ t.blockers = <<>>
     /\ t.alerts = 0
     /\ DOMAIN sessionObjs[t.session].responses = {1}
     /\ NoBlockerReported(t.session)

\* C35: a one-time scheduleMeeting for an instant that is not strictly in the
\* future is rejected: with the instant equal to now the call fails on the
\* past-schedule check and leaves no trigger that could fire
C35_PresentInstantRejected ==
  (OneTimeReturned /\ meetings[lastOp.id].scheduledTime = now)
    => /\ ~lastOp.ok
       /\ lastOp.cause = "past"
       /\ lastOp.id \notin timers

\* the recurring trigger of id fires in this step
CronFires(id) == lastOp'.op = "cronFire" /\ lastOp'.id = id

\* C36: the trigger of a daily meeting fires only on Monday to Friday at the time
\* of day of the scheduled instant; its job is registered when the meeting is,
\* stays registered until a cancelMeeting for the meeting returns, and while it
\* is registered the clock passes no weekday at that time of day without it
\* having fired; once the job is gone the trigger never fires again
C36_DailyFiresOnWeekdaysUntilCancelled ==
  [][scope.results
       => \A id \in DOMAIN meetings' :
             /\ CronFires(id)
                  => /\ meetings[id].recurrence = "daily"
                     /\ id \in scheduledJobs
                     /\ (now \div DayLen) % 7 \in 0..4
                     /\ now % DayLen = meetings[id].scheduledTime % DayLen
             /\ (~Has(meetings, id) /\ meetings'[id].recurrence = "daily")
                  => id \in scheduledJobs'
             /\ (id \in scheduledJobs /\ id \notin scheduledJobs')
                  => lastOp'.op = "cancelMeeting" /\ lastOp'.id = id /\ lastOp'.ok
             /\ (Has(meetings, id) /\ id \notin scheduledJobs) => id \notin scheduledJobs'
             /\ (/\ now' # now
                 /\ id \in scheduledJobs
                 /\ (now \div DayLen) % 7 \in 0..4
                 /\ now % DayLen = meetings[id].scheduledTime % DayLen)
                  => id \in cronFired]_vars

\* Saturday at the meeting's time of day: the job is registered and has not
\* fired, and the last start of the meeting was the trigger's on Friday
C36_SaturdaySkipped ==
  \E id \in scheduledJobs :
     /\ (now \div DayLen) % 7 = 5
     /\ now % DayLen = meetings[id].scheduledTime % DayLen
     /\ id \notin cronFired
     /\ meetings[id].startedAt = now - DayLen
     /\ lastOp.op = "step"

\* C37: a run of endMeeting sets the status to completed, stamps endedAt with the
\* end instant and overwrites the duration with the time elapsed since the
\* session's startTime as a whole number of minutes, not negative and within half
\* a minute of the elapsed time; when the run has returned with success endedAt
\* is still stamped
C37_EndStampsElapsedMinutes ==
  [][/\ \A t \in BagToSet(tasks') :
           RunBegins(t)
             => /\ meetings'[t.meetingId].status = "completed"
                /\ meetings'[t.meetingId].endedAt = now
                /\ meetings'[t.meetingId].duration \in Nat
                /\ 2 * (meetings'[t.meetingId].duration * MsPerMinute
                          - (now - sessionObjs[t.session].startTime) * InstantMs)
                     \in (0 - MsPerMinute)..MsPerMinute
     /\ (lastOp'.finalizer /\ lastOp'.ok)
           => /\ meetings'[lastOp'.id].endedAt # NoTime
              /\ meetings'[lastOp'.id].duration \in Nat]_vars

\* a run of endMeeting has begun one instant after the start of its session and
\* stored the half minute elapsed as one minute
C37_HalfMinuteRoundedUp ==
  \E t \in BagToSet(tasks) :
     /\ t.kind = "end" /\ t.pc = "summary"
     /\ sessionObjs[t.session].startTime = now - 1
     /\ meetings[t.meetingId].endedAt = now
     /\ meetings[t.meetingId].duration = 1

\* the call of retryAsync has ended
RetryDone == retry.pc \in {"returned", "threw"}

\* every invocation of fn made by the call failed
AllFailed == \A k \in 1..Len(retry.outcomes) : ~retry.outcomes[k]

\* C38: retryAsync with maxRetries >= 1 invokes fn at most maxRetries times and
\* not again after a success; it returns the value of the first invocation that
\* succeeded; before attempt i+1 it has waited baseDelay * 2^i, once per failed
\* attempt that was not the last; it rethrows the last error exactly when
\* maxRetries invocations have failed; and the call ends
C38_RetryBoundedWithBackoff ==
  /\ [](retry.maxRetries >= 1
          => /\ Len(retry.outcomes) <= retry.maxRetries
             /\ \A k \in 1..(Len(retry.outcomes) - 1) : ~retry.outcomes[k]
             /\ \A k \in 1..Len(retry.delays) : retry.delays[k] = retry.baseDelay * 2^(k - 1)
             /\ retry.pc \in {"loop", "fn"} => Len(retry.delays) = retry.i
             /\ retry.pc = "fn" => Len(retry.outcomes) = retry.i
             /\ retry.pc = "returned"
                  => /\ Len(retry.outcomes) >= 1
                     /\ retry.outcomes[Len(retry.outcomes)]
                     /\ retry.result = <<"value", Len(retry.outcomes)>>
             /\ retry.pc = "threw"
                  => /\ retry.result = <<"error", retry.maxRetries>>
                     /\ Len(retry.delays) = retry.maxRetries - 1
             /\ RetryDone
                  => (retry.pc = "threw"
                        <=> Len(retry.outcomes) = retry.maxRetries /\ AllFailed))
  /\ (retry.pc # "idle" ~> RetryDone)

\* retryAsync has rethrown the error of the last of MaxRetries failed attempts,
\* after a delay before each attempt but the first
C38_AllAttemptsFailedSeen ==
  /\ retry.pc = "threw"
  /\ retry.maxRetries = MaxRetries
  /\ Len(retry.outcomes) = MaxRetries
  /\ Len(retry.delays) = MaxRetries - 1
  /\ retry.baseDelay = MaxBaseDelay
  /\ retry.delays[MaxRetries - 1] = MaxBaseDelay * 2^(MaxRetries - 2)

\* C39: getNextOccurrence with recurrence daily or weekly returns an instant that
\* is not before the current instant, whatever the input time
C39_NextOccurrenceNotBeforeNow ==
  (occurrence.pc \in {"returned", "threw"} /\ occurrence.recurrence \in {"daily", "weekly"})
    => /\ occurrence.ok
       /\ occurrence.result >= occurrence.now

\* C40: getActiveSessions lists exactly the ids that have a live session; the
\* completedParticipants it reports for an id is the number of sub-sessions of
\* that session whose isComplete is true, and is at most the length of the
\* session's participant list
C40_ActiveSessionsListed ==
  \E listing \in {getActiveSessions(State).lastOp.result} :
     /\ DOMAIN listing = DOMAIN activeSessions
     /\ \A id \in DOMAIN activeSessions :
           /\ listing[id].meetingId = id
           /\ listing[id].completedParticipants
                = Cardinality({n \in DOMAIN SubSessions(id) : SubSessions(id)[n].isComplete = "true"})
           /\ listing[id].completedParticipants
                <= Len(sessionObjs[activeSessions[id]].participants)

\* a listing has reported one completed participant of a session of two that
\* both joined
C40_PartlyCompletedListed ==
  /\ lastOp.op = "getActiveSessions"
  /\ \E id \in DOMAIN lastOp.result :
        /\ lastOp.result[id].completedParticipants = 1
        /\ Len(lastOp.result[id].participants) = 2
        /\ Has(activeSessions, id)
        /\ Cardinality(DOMAIN SubSessions(id)) = 2

====
